---- MODULE Spec2Model ----
(***************************************************************************)
(* A model of sequence_convolution/models.py: MaxPoolingLayer,             *)
(* MultiSequenceConvolutionLayer and SequenceConvolutionNet.               *)
(*                                                                         *)
(* Python dictionaries are functions whose DOMAIN is the set of keys the   *)
(* dictionary has (has_key(k) is k \in DOMAIN d).  Python lists are        *)
(* sequences; the code's 0-based indices (weight_share, param_idx) are     *)
(* kept 0-based and converted where a sequence is indexed.  A tensor is    *)
(* modelled by its shape and one integer value per column (batch size 1).  *)
(* A raised exception is the name of its class.                            *)
(***************************************************************************)
EXTENDS Integers, Sequences, FiniteSets, TLC

VARIABLES
    pc,                 \* "args": arguments chosen, constructor not yet run;
                        \* "built": the constructor returned; "raised": it raised
    args,               \* the arguments the constructor is called with
    curand_stream,      \* the values successive curand() calls will fill W with
    self,               \* the MultiSequenceConvolutionLayer object
    pool,               \* a MaxPoolingLayer object
    net,                \* a SequenceConvolutionNet object
    caches,             \* the caches of earlier feed_forward calls the caller still holds
    result              \* what the last call returned or raised

vars == <<pc, args, curand_stream, self, pool, net, caches, result>>

(***************************************************************************)
(* Bounds of the model.                                                    *)
(***************************************************************************)
MaxRegions == 3
MaxCaches == 2
MaxNIn == 3
MaxPoolSize == 2
MaxFilters == 2
MaxNetNIn == 6
MaxNetPoolSize == 4

(***************************************************************************)
(* Python helpers.                                                         *)
(***************************************************************************)
EmptyDict == [k \in {} |-> 0]

SetItem(d, k, v) == [x \in DOMAIN d \cup {k} |-> IF x = k THEN v ELSE d[x]]

\* d.get(k, default)
Get(d, k, default) == IF k \in DOMAIN d THEN d[k] ELSE default

\* The dictionaries that have key k with a value of S, or do not have it.
OptSet(k, S) == {EmptyDict} \cup {k :> v : v \in S}

RECURSIVE SumSeq(_)
SumSeq(s) == IF s = <<>> THEN 0 ELSE Head(s) + SumSeq(Tail(s))

\* Python's list indexing: a negative index counts from the end.
InRange(idx, n) == idx >= 0 - n /\ idx < n
PyIndex(idx, n) == IF idx < 0 THEN idx + n ELSE idx

\* int(np.ceil(a / float(b))) for positive b
CeilDiv(a, b) == IF a % b = 0 THEN a \div b ELSE (a \div b) + 1

\* Python 2's a / b on integers, for positive b
FloorDiv(a, b) == a \div b

NoneType == [type |-> "NoneType"]

(***************************************************************************)
(* MaxPoolingLayer._compute_n_units                                        *)
(***************************************************************************)
_compute_n_units(n_in, pool_size, n_filters) == CeilDiv(n_in, pool_size) * n_filters

(***************************************************************************)
(* MultiSequenceConvolutionLayer.__init__                                  *)
(***************************************************************************)
DefaultFields ==
    {"n_filters", "filter_width", "pool_size", "activation_function",
     "l1_penalty_weight", "l2_penalty_weight", "lr_multiplier"}

\* HiddenLayer._resolve_activation_fct: the pair (f, df) the name selects.
_resolve_activation_fct(name) == [f |-> <<"f", name>>, df |-> <<"df", name>>]

\* "Replace defaults": every layer-wide argument that is not None is written
\* into the region's dictionary.
ReplaceDefaults(layer, kw) ==
    [k \in DOMAIN layer \cup (DOMAIN kw \cap DefaultFields) |->
        IF k \in DOMAIN kw \cap DefaultFields THEN kw[k] ELSE layer[k]]

Raise(st, exc) == [st EXCEPT !.raised = exc]

\* The column after a region's range, where the next region starts.
NextOffsetOverlapping(output_offset, n_units) == output_offset + n_units - 1

NextOffset(output_offset, n_units) == output_offset + n_units

\* The index a new master's filter bank gets, and the next one.
NextParamIdx(param_idx) == param_idx + 1

\* The width of the one-hot encoding of a sequence position.
AlphabetSize == 4

\* layer[k] = v unless the region has the key.
SetDefault(layer, k, v) == IF k \in DOMAIN layer THEN layer ELSE SetItem(layer, k, v)

\* layer['f'], layer['df'] = self._resolve_activation_fct(layer['activation_function'])
SetActivation(layer) ==
    SetItem(SetItem(layer, "f", _resolve_activation_fct(layer["activation_function"]).f),
            "df", _resolve_activation_fct(layer["activation_function"]).df)

\* The dictionary of a master once its branch has run.
MasterResolved(layer, param_idx) ==
    SetDefault(
        SetDefault(
            SetDefault(
                SetActivation(
                    SetItem(SetItem(layer, "layer_type", "master"), "param_idx", param_idx)),
                "l1_penalty_weight", 0),
            "l2_penalty_weight", 0),
        "lr_multiplier", 1)

\* The filter bank curand fills for a master, and its zero bias.
NewW(layer, fill) ==
    [shape |-> <<layer["n_filters"], AlphabetSize * layer["filter_width"]>>, val |-> fill]

NewB(layer) == [shape |-> <<layer["n_filters"]>>, val |-> 0]

\* The branch of a region without weight_share.
MasterRegion(st, i, layer) ==
    IF ~ ({"n_filters", "filter_width", "activation_function"} \subseteq DOMAIN layer)
    THEN Raise(st, "KeyError")
    ELSE [st EXCEPT !.layers[i] = MasterResolved(layer, st.param_idx),
                    !.W = Append(@, NewW(layer, curand_stream[Len(st.W) + 1])),
                    !.b = Append(@, NewB(layer)),
                    !.param_idx = NextParamIdx(@)]

\* What a slave takes from the region its weight_share names.
SlaveCopyKeepOwn(layer, master_layer) ==
    SetItem(SetItem(SetItem(SetItem(SetItem(SetItem(layer,
        "n_filters", Get(layer, "n_filters", master_layer["n_filters"])),
        "filter_width", Get(layer, "filter_width", master_layer["filter_width"])),
        "param_idx", master_layer["param_idx"]),
        "activation_function",
            Get(layer, "activation_function", master_layer["activation_function"])),
        "f", master_layer["f"]),
        "df", master_layer["df"])

SlaveCopy(layer, master_layer) ==
    SetItem(SetItem(SetItem(SetItem(SetItem(SetItem(layer,
        "n_filters", master_layer["n_filters"]),
        "filter_width", master_layer["filter_width"]),
        "param_idx", master_layer["param_idx"]),
        "activation_function", master_layer["activation_function"]),
        "f", master_layer["f"]),
        "df", master_layer["df"])

\* subregion_layers[layer['weight_share']]: the dictionary at that index as
\* it is now, resolved if the index is an earlier one, as declared if it is
\* a later one, the region itself (layer) if the index is its own.
MasterLayerOf(layers, i, layer) ==
    [layers EXCEPT ![i] = layer][PyIndex(layer["weight_share"], Len(layers)) + 1]

SlaveFrom(st, i, layer, master_layer) ==
    IF ~ ({"n_filters", "filter_width", "param_idx",
           "activation_function", "f", "df"} \subseteq DOMAIN master_layer)
    THEN Raise(st, "KeyError")
    ELSE [st EXCEPT !.layers[i] = SlaveCopy(layer, master_layer)]

\* The branch of a region with weight_share; layer has layer_type 'slave'.
SlaveRegion(st, i, layer) ==
    IF ~ InRange(layer["weight_share"], Len(st.layers))
    THEN Raise(st, "IndexError")
    ELSE SlaveFrom(st, i, layer, MasterLayerOf(st.layers, i, layer))

\* The master or the slave branch, for the region with the layer-wide
\* values written in.
RegionBranch(st, i, layer) ==
    IF "weight_share" \notin DOMAIN layer
    THEN MasterRegion(st, i, layer)
    ELSE SlaveRegion(st, i, SetItem(layer, "layer_type", "slave"))

SetUnits(st, i, n_units) ==
    [st EXCEPT !.layers[i] = SetItem(SetItem(@, "n_units", n_units),
                                     "output_offset", st.output_offset),
               !.output_offset = NextOffset(@, n_units)]

\* layer['n_units'] and layer['output_offset'], after the branch.
RegionUnits(st, i) ==
    IF st.raised # "" THEN st
    ELSE IF ~ ({"pool_size", "n_filters"} \subseteq DOMAIN st.layers[i])
    THEN Raise(st, "KeyError")
    ELSE SetUnits(st, i, _compute_n_units(st.layers[i]["n_in"],
                                          st.layers[i]["pool_size"],
                                          st.layers[i]["n_filters"]))

\* One iteration of the loop over subregion_layers.
ResolveRegion(st, i, kw) ==
    RegionUnits(RegionBranch(st, i, ReplaceDefaults(st.layers[i], kw)), i)

RECURSIVE ResolveLoop(_, _, _)
ResolveLoop(st, i, kw) ==
    IF st.raised # "" \/ i > Len(st.layers) THEN st
    ELSE ResolveLoop(ResolveRegion(st, i, kw), i + 1, kw)

\* self.fc_layer_offset
FcLayerOffset(sum_n_units) == sum_n_units

IsMaster(l) == l["layer_type"] = "master"

SumNUnits(layers) == SumSeq([i \in 1..Len(layers) |-> layers[i]["n_units"]])

AnyPenalty(master_layers, k) ==
    \E j \in 1..Len(master_layers) : master_layers[j][k] > 0

\* The object the constructor leaves once the loop has run without raising.
LayerObj(st, fc, dropout, sum_n_units) ==
    [raised |-> "",
     subregion_layers |-> st.layers,
     dropout |-> dropout,
     W |-> st.W,
     b |-> st.b,
     fully_connected_layer |-> fc,
     n_units |-> IF fc.type = "HiddenLayer" THEN sum_n_units + fc.n_units
                 ELSE sum_n_units,
     fc_layer_offset |-> IF fc.type = "HiddenLayer" THEN FcLayerOffset(sum_n_units)
                         ELSE 0,
     master_layers |-> SelectSeq(st.layers, IsMaster),
     l1_penalty_weight |-> AnyPenalty(SelectSeq(st.layers, IsMaster), "l1_penalty_weight"),
     l2_penalty_weight |-> AnyPenalty(SelectSeq(st.layers, IsMaster), "l2_penalty_weight")]

\* The part of the constructor after the loop.
FinishLayer(st, fc, dropout) ==
    IF st.raised # "" THEN [raised |-> st.raised]
    ELSE IF fc.type \notin {"HiddenLayer", "NoneType"} THEN [raised |-> "TypeError"]
    ELSE IF fc.type = "HiddenLayer" /\ fc.dropout THEN [raised |-> "ValueError"]
    ELSE LayerObj(st, fc, dropout, SumNUnits(st.layers))

\* The object the constructor leaves, or the exception it raises.
NewLayer(a) ==
    FinishLayer(ResolveLoop([layers |-> a.subregion_layers, W |-> <<>>, b |-> <<>>,
                             output_offset |-> 0, param_idx |-> 0, raised |-> ""],
                            1, a.kwargs),
                a.fully_connected_layer, a.dropout)

Built(obj) ==
    /\ pc' = IF obj.raised = "" THEN "built" ELSE "raised"
    /\ self' = obj
    /\ result' = [op |-> "__init__", raised |-> obj.raised]

Construct ==
    /\ pc = "args"
    /\ Built(NewLayer(args))
    /\ UNCHANGED <<args, curand_stream, pool, net, caches>>

(***************************************************************************)
(* MultiSequenceConvolutionLayer.n_parameters, parameters, update_parameters*)
(***************************************************************************)
FcNParameters(layer) ==
    IF layer.fully_connected_layer.type = "HiddenLayer"
    THEN layer.fully_connected_layer.n_parameters ELSE 0

n_parameters(layer) == Len(layer.W) + Len(layer.b) + FcNParameters(layer)

parameters(layer) ==
    layer.W \o layer.b \o
    (IF layer.fully_connected_layer.type = "HiddenLayer"
     THEN layer.fully_connected_layer.parameters ELSE <<>>)

\* Python's s[a:b] for 0 <= a, b
Slice(s, a, b) == SubSeq(s, a + 1, IF b > Len(s) THEN Len(s) ELSE b)

\* self.W = conv_params[:len(self.W)]
SetterWTakesAll(conv_params, nW) == conv_params

SetterW(conv_params, nW) == Slice(conv_params, 0, nW)

\* The convolution part and the fully-connected part of a parameter list.
ConvParams(layer, value) ==
    IF layer.fully_connected_layer.type = "HiddenLayer"
    THEN Slice(value, 0, n_parameters(layer) - FcNParameters(layer))
    ELSE value

FcParams(layer, value) ==
    Slice(value, n_parameters(layer) - FcNParameters(layer), Len(value))

\* self.W = conv_params[:len(self.W)]; self.b = conv_params[len(self.W):]
\* The second line reads the length of the W just assigned.
SetWb(layer, conv_params, newW) ==
    [layer EXCEPT !.W = newW,
                  !.b = Slice(conv_params, Len(newW), Len(conv_params))]

SetFcParameters(layer, fc_params) ==
    IF layer.fully_connected_layer.type = "HiddenLayer"
    THEN [layer EXCEPT !.fully_connected_layer.parameters = fc_params]
    ELSE layer

\* parameters.setter: the layer after `layer.parameters = value`, which the
\* assert lets through only for a list of n_parameters elements.
SetParametersObj(layer, value) ==
    SetWb(SetFcParameters(layer, FcParams(layer, value)),
          ConvParams(layer, value),
          SetterW(ConvParams(layer, value), Len(layer.W)))

SetParameters(value) ==
    /\ pc = "built"
    /\ IF Len(value) # n_parameters(self)
       THEN /\ result' = [op |-> "parameters", raised |-> "AssertionError",
                          value |-> value]
            /\ self' = self
       ELSE /\ result' = [op |-> "parameters", raised |-> "", value |-> value]
            /\ self' = SetParametersObj(self, value)
    /\ UNCHANGED <<pc, args, curand_stream, pool, net, caches>>

\* param._axpbyz(1., gparam, mult, param): param := 1 * param + mult * gparam
Axpbyz(param, gm) == [param EXCEPT !.val = @ + gm[2] * gm[1]]

\* HiddenLayer.update_parameters, the same update on the branch's two tensors.
FcUpdateParameters(fc, fc_params) ==
    [fc EXCEPT !.parameters = [i \in 1..Len(@) |-> Axpbyz(@[i], fc_params[i])]]

\* conv_params = values[:-2] with a fully-connected branch, else values
UpdateConvParams(layer, values) ==
    IF layer.fully_connected_layer.type = "HiddenLayer"
    THEN Slice(values, 0, Len(values) - 2) ELSE values

\* izip(self.W + self.b, conv_params) stops at the shorter of the two.
UpdateAt(param, conv_params, k) ==
    IF k <= Len(conv_params) THEN Axpbyz(param, conv_params[k]) ELSE param

UpdateWb(layer, conv_params) ==
    [layer EXCEPT
        !.W = [k \in 1..Len(layer.W) |-> UpdateAt(layer.W[k], conv_params, k)],
        !.b = [k \in 1..Len(layer.b) |->
                  UpdateAt(layer.b[k], conv_params, Len(layer.W) + k)]]

UpdateFc(layer, values) ==
    IF layer.fully_connected_layer.type = "HiddenLayer"
    THEN [layer EXCEPT !.fully_connected_layer =
             FcUpdateParameters(@, Slice(values, Len(values) - 2, Len(values)))]
    ELSE layer

UpdateParametersObj(layer, values) ==
    UpdateWb(UpdateFc(layer, values), UpdateConvParams(layer, values))

\* The largest absolute value a parameter tensor may reach in the model.
MaxParamVal == 12

ParamVals(layer) == {parameters(layer)[k].val : k \in 1..Len(parameters(layer))}

UpdateParameters(values) ==
    /\ pc = "built"
    /\ IF Len(values) # n_parameters(self)
       THEN /\ result' = [op |-> "update_parameters", raised |-> "AssertionError",
                          value |-> values]
            /\ self' = self
       ELSE /\ \A v \in ParamVals(UpdateParametersObj(self, values)) :
                  v <= MaxParamVal /\ v >= 0 - MaxParamVal
            /\ result' = [op |-> "update_parameters", raised |-> "", value |-> values]
            /\ self' = UpdateParametersObj(self, values)
    /\ UNCHANGED <<pc, args, curand_stream, pool, net, caches>>

(***************************************************************************)
(* The numeric kernels of pycuda_ops and the fully-connected HiddenLayer,  *)
(* on tensors of one value per column.                                     *)
(***************************************************************************)
Sign(x) == IF x > 0 THEN 1 ELSE IF x < 0 THEN 0 - 1 ELSE 0

\* Elementwise product of two rows.
Mul(x, mask) == [c \in 1..Len(x) |-> x[c] * mask[c]]

\* The activation function f applied to a value, and its derivative df at
\* an activation.
ApplyAct(f, x) == IF f[2] = "relu" /\ x < 0 THEN 0 ELSE x

ActDf(df, y) == IF df[2] = "relu" /\ y <= 0 THEN 0 ELSE 1

convolve_sequence(input_region, W, b) == input_region * W.val + b.val

\* The gradient max_pool_gradient routes back into a filtermap: what
\* arrives in the region's pooled columns, n_filters * width_pooled columns
\* from pooled_offset on.
max_pool_gradient(df_output, n_filters, width_pooled, pooled_offset) ==
    SumSeq(SubSeq(df_output, pooled_offset + 1, pooled_offset + n_filters * width_pooled))

sum_delta(delta, n_filters) == delta

convolve_sequence_gradient(input_region, delta, filter_width, n_filters) ==
    input_region * delta

\* sample_dropout_mask returns a mask of the shape of its argument.
DropoutMasks(n_units) == [1..n_units -> {0, 1}]

\* What sample_dropout_mask may return where feed_forward calls it, on the
\* whole of activations_pooled; nothing is sampled where it does not.
SampledMasks(layer, prediction) ==
    IF layer.dropout /\ ~ prediction THEN DropoutMasks(layer.n_units) ELSE {<<>>}

apply_dropout_mask(df_output, dropout_mask) == Mul(df_output, dropout_mask)

extract_columns(mat, start, stop) == SubSeq(mat, start + 1, stop)

\* HiddenLayer.feed_forward(input, prediction)[0]
FcFeedForward(fc, input_fc) ==
    [u \in 1..fc.n_units |-> input_fc * fc.parameters[1].val + fc.parameters[2].val]

\* HiddenLayer.backprop(input, df_output, cache): ((df_W, df_b), df_input)
FcBackprop(fc, input_fc, df_output_fc) ==
    [grad |-> <<input_fc * SumSeq(df_output_fc), SumSeq(df_output_fc)>>,
     df_input |-> fc.parameters[1].val * SumSeq(df_output_fc)]

(***************************************************************************)
(* MultiSequenceConvolutionLayer.feed_forward                              *)
(***************************************************************************)
LayerHasFc(layer) == layer.fully_connected_layer.type = "HiddenLayer"

\* filtermap of region r: convolve_sequence, then the region's f in place.
Filtermap(layer, input, r) ==
    ApplyAct(layer.subregion_layers[r]["f"],
             convolve_sequence(input[r],
                               layer.W[layer.subregion_layers[r]["param_idx"] + 1],
                               layer.b[layer.subregion_layers[r]["param_idx"] + 1]))

\* The region whose max_pool call wrote column c (0-based) last.
WriterOf(layers, c) ==
    CHOOSE r \in 1..Len(layers) :
        /\ c >= layers[r]["output_offset"]
        /\ c < layers[r]["output_offset"] + layers[r]["n_units"]
        /\ \A q \in (r + 1)..Len(layers) :
              ~ (/\ c >= layers[q]["output_offset"]
                 /\ c < layers[q]["output_offset"] + layers[q]["n_units"])

\* activations_pooled: every region's pooled filtermap at its offset, then
\* the fully-connected activations inserted at fc_layer_offset.
ActivationsPooled(layer, input) ==
    [k \in 1..layer.n_units |->
        IF LayerHasFc(layer) /\ k - 1 >= layer.fc_layer_offset
        THEN FcFeedForward(layer.fully_connected_layer,
                           input[Len(input)])[k - layer.fc_layer_offset]
        ELSE Filtermap(layer, input, WriterOf(layer.subregion_layers, k - 1))]

NoMask == [type |-> "NoneType"]

\* The tuple feed_forward returns: (activations_pooled, argmax, filtermaps,
\* dropout_mask, activations_fc).  mask is what sample_dropout_mask returns
\* if it is called.
ForwardCache(layer, input, prediction, mask) ==
    [type |-> "cache",
     activations_pooled |-> ActivationsPooled(layer, input),
     argmax |-> [k \in 1..layer.n_units |-> 0],
     filtermaps |-> [r \in 1..Len(layer.subregion_layers) |-> Filtermap(layer, input, r)],
     dropout_mask |-> IF layer.dropout /\ ~ prediction
                      THEN [type |-> "mask", val |-> mask] ELSE NoMask,
     activations_fc |-> IF LayerHasFc(layer)
                        THEN FcFeedForward(layer.fully_connected_layer, input[Len(input)])
                        ELSE <<>>]

\* The input of the model's calls: one value per region, all different,
\* and one more for the fully-connected branch.
InputOf(layer) ==
    [r \in 1..(Len(layer.subregion_layers) + IF LayerHasFc(layer) THEN 1 ELSE 0) |->
        2 ^ (r - 1)]

\* feed_forward(input, prediction); the caller keeps the cache in one of
\* its slots.
FeedForward(slot, prediction, mask) ==
    /\ pc = "built"
    /\ caches' = [caches EXCEPT ![slot] = ForwardCache(self, InputOf(self), prediction, mask)]
    /\ result' = [op |-> "feed_forward", raised |-> "", prediction |-> prediction,
                  cache |-> ForwardCache(self, InputOf(self), prediction, mask)]
    /\ UNCHANGED <<pc, args, curand_stream, self, pool, net>>

(***************************************************************************)
(* MultiSequenceConvolutionLayer.backprop                                  *)
(***************************************************************************)
\* if cache is None: cache = self.feed_forward(input)
CacheUsedOfLastForward(cache, fresh) ==
    IF cache = NoneType THEN fresh
    ELSE IF result.op = "feed_forward" THEN result.cache
    ELSE cache

CacheUsed(cache, fresh) == IF cache = NoneType THEN fresh ELSE cache

\* df_output after `if self.dropout and dropout_mask is not None:
\* apply_dropout_mask(df_output, dropout_mask)`, which works in place.
MaskedDfOutput(layer, df_output, cache) ==
    IF layer.dropout /\ cache.dropout_mask # NoMask
    THEN apply_dropout_mask(df_output, cache.dropout_mask.val)
    ELSE df_output

\* df_filtermap, delta, df_b_layer and df_W_layer of one region.
DfFiltermap(region, df_output) ==
    max_pool_gradient(df_output, region["n_filters"],
                      region["n_units"] \div region["n_filters"],
                      region["output_offset"])

Delta(region, filtermap, df_output) ==
    ActDf(region["df"], filtermap) * DfFiltermap(region, df_output)

DfBLayer(region, filtermap, df_output) ==
    sum_delta(Delta(region, filtermap, df_output), region["n_filters"])

DfWLayer(region, input_region, filtermap, df_output) ==
    convolve_sequence_gradient(input_region, Delta(region, filtermap, df_output),
                               region["filter_width"], region["n_filters"])

\* A master appends its gradient; a slave adds its own to the entry at its
\* param_idx.
AccumulateOverwrites(df, region, g) ==
    IF region["layer_type"] = "master" THEN Append(df, g)
    ELSE [df EXCEPT ![region["param_idx"] + 1] = g]

Accumulate(df, region, g) ==
    IF region["layer_type"] = "master" THEN Append(df, g)
    ELSE [df EXCEPT ![region["param_idx"] + 1] = @ + g]

\* The loop over izip(input, filtermaps, self.subregion_layers), from region r on.
RECURSIVE AccumulateLoop(_, _, _, _, _, _)
AccumulateLoop(layer, input, filtermaps, df_output, r, acc) ==
    IF r > Len(layer.subregion_layers) \/ r > Len(input) \/ r > Len(filtermaps)
    THEN acc
    ELSE AccumulateLoop(layer, input, filtermaps, df_output, r + 1,
            [W |-> Accumulate(acc.W, layer.subregion_layers[r],
                              DfWLayer(layer.subregion_layers[r], input[r],
                                       filtermaps[r], df_output)),
             b |-> Accumulate(acc.b, layer.subregion_layers[r],
                              DfBLayer(layer.subregion_layers[r], filtermaps[r],
                                       df_output))])

\* if layer['l1_penalty_weight']: df_W_i -= layer['l1_penalty_weight'] * sign(df_W_i)
PenaltyL1(df_W_i, master, W_p) ==
    IF master["l1_penalty_weight"] # 0
    THEN df_W_i - master["l1_penalty_weight"] * Sign(df_W_i)
    ELSE df_W_i

\* if layer['l2_penalty_weight']: df_W_i -= layer['l2_penalty_weight'] * self.W
\* self.W is the list of all filter banks: the product of a number and a
\* list is no tensor, and the statement raises TypeError.
PenaltyL2Raises(layer, df_W) ==
    \E j \in 1..Len(df_W) :
        j <= Len(layer.master_layers) /\ layer.master_layers[j]["l2_penalty_weight"] # 0

Penalized(layer, df_W) ==
    [j \in 1..Len(df_W) |->
        IF j <= Len(layer.master_layers)
        THEN PenaltyL1(df_W[j], layer.master_layers[j], layer.W[j].val)
        ELSE df_W[j]]

\* df_output_fc = extract_columns(df_output, self.fc_layer_offset, df_output.shape[1])
DfOutputFc(layer, df_output) ==
    IF LayerHasFc(layer)
    THEN extract_columns(df_output, layer.fc_layer_offset, Len(df_output))
    ELSE <<>>

GradFc(layer, input, df_output) ==
    IF LayerHasFc(layer)
    THEN FcBackprop(layer.fully_connected_layer, input[Len(input)],
                    DfOutputFc(layer, df_output)).grad
    ELSE <<>>

\* What backprop returns or raises, given the accumulated gradients.
BackpropReturn(layer, input, df_output, acc) ==
    IF PenaltyL2Raises(layer, acc.W)
    THEN [raised |-> "TypeError", grads |-> <<>>, df_output_fc |-> <<>>]
    ELSE [raised |-> "",
          grads |-> Penalized(layer, acc.W) \o acc.b \o GradFc(layer, input, df_output),
          df_output_fc |-> DfOutputFc(layer, df_output)]

BackpropResult(layer, input, df_output, cache) ==
    BackpropReturn(layer, input, df_output,
                   AccumulateLoop(layer, input, cache.filtermaps, df_output, 1,
                                  [W |-> <<>>, b |-> <<>>]))

BackpropRecord(cache_given, cache, df_output_in, df_output, ret) ==
    [op |-> "backprop", raised |-> ret.raised, cache_given |-> cache_given,
     cache |-> cache, df_output_in |-> df_output_in, df_output |-> df_output,
     grads |-> ret.grads, df_output_fc |-> ret.df_output_fc]

BackpropMasked(cache_given, cache, df_output_in, df_output) ==
    result' = BackpropRecord(cache_given, cache, df_output_in, df_output,
                             BackpropResult(self, InputOf(self), df_output, cache))

BackpropWith(cache_given, cache, df_output) ==
    BackpropMasked(cache_given, cache, df_output, MaskedDfOutput(self, df_output, cache))

\* backprop(input, df_output, cache): cache is None or a cache the caller
\* holds; mask is what sample_dropout_mask returns if feed_forward is run.
Backprop(cache, df_output, mask) ==
    /\ pc = "built"
    /\ BackpropWith(cache, CacheUsed(cache, ForwardCache(self, InputOf(self), FALSE, mask)),
                    df_output)
    /\ UNCHANGED <<pc, args, curand_stream, self, pool, net, caches>>

\* The gradients arriving from the next layer: the same in every column, or
\* a different one in every column.
DfOutputs(n_units) == {[k \in 1..n_units |-> 1], [k \in 1..n_units |-> k + 1]}

\* The width of the layer's output, once there is a layer.
WidthNow == IF pc = "built" THEN self.n_units ELSE 0

\* The masks a feed_forward call may sample, and those a backprop call may:
\* it runs feed_forward(input) itself when it is given no cache.
ForwardMasks(prediction) ==
    IF pc = "built" THEN SampledMasks(self, prediction) ELSE {}

BackpropMasks(cache) ==
    IF pc = "built" /\ cache = NoneType THEN SampledMasks(self, FALSE) ELSE {<<>>}

HeldCaches == {NoneType} \cup {caches[k] : k \in 1..MaxCaches}

(***************************************************************************)
(* MaxPoolingLayer                                                         *)
(***************************************************************************)
\* MaxPoolingLayer.__init__
NewPool(n_in, pool_size, n_filters, dropout) ==
    [raised |-> "", n_in |-> n_in, pool_size |-> pool_size, n_filters |-> n_filters,
     dropout |-> dropout, n_units |-> _compute_n_units(n_in, pool_size, n_filters)]

\* pycuda_ops.max_pool on a row of n_filters filters of width positions
\* each: the positions (1-based, in the row) of window w of filter f.  The
\* last window of a filter may be shorter.
Window(width, pool_size, f, w) ==
    {(f - 1) * width + q :
        q \in ((w - 1) * pool_size + 1) ..
              (IF w * pool_size < width THEN w * pool_size ELSE width)}

\* The first position of a window that holds the window's maximum.
ArgmaxIn(input, win) ==
    CHOOSE q \in win :
        /\ \A o \in win : input[o] <= input[q]
        /\ \A o \in win : input[o] = input[q] => q <= o

\* argmax: for each pooled column, filter after filter, the position of
\* its window's maximum.
MaxPoolArgmax(input, pool_size, n_filters) ==
    [k \in 1..(CeilDiv(Len(input) \div n_filters, pool_size) * n_filters) |->
        ArgmaxIn(input,
                 Window(Len(input) \div n_filters, pool_size,
                        ((k - 1) \div CeilDiv(Len(input) \div n_filters, pool_size)) + 1,
                        ((k - 1) % CeilDiv(Len(input) \div n_filters, pool_size)) + 1))]

MaxPoolActivations(input, argmax) == [k \in 1..Len(argmax) |-> input[argmax[k]]]

\* pycuda_ops.max_pool_gradient: each pooled gradient goes to the position
\* its argmax recorded; every other position gets 0.
MaxPoolGradient(input, argmax, df_output) ==
    [q \in 1..Len(input) |->
        SumSeq([k \in 1..Len(argmax) |->
                    IF argmax[k] = q /\ k <= Len(df_output) THEN df_output[k] ELSE 0])]

\* activations *= .5
Halved(activations) == [k \in 1..Len(activations) |-> activations[k] \div 2]

TupleOf(items) == [type |-> "tuple", items |-> items]

\* What MaxPoolingLayer.feed_forward returns: (activations, argmax), or
\* (activations, argmax, dropout_mask) with dropout and without prediction.
PoolFeedForwardReturn(layer, argmax, activations, prediction, mask) ==
    IF layer.dropout /\ ~ prediction
    THEN TupleOf(<<activations, argmax, [type |-> "mask", val |-> mask]>>)
    ELSE IF layer.dropout /\ prediction
    THEN TupleOf(<<Halved(activations), argmax>>)
    ELSE TupleOf(<<activations, argmax>>)

PoolForward(layer, input, argmax, prediction, mask) ==
    PoolFeedForwardReturn(layer, argmax, MaxPoolActivations(input, argmax),
                          prediction, mask)

PoolFeedForwardCache(layer, input, prediction, mask) ==
    PoolForward(layer, input, MaxPoolArgmax(input, layer.pool_size, layer.n_filters),
                prediction, mask)

PoolFeedForward(slot, input, prediction, mask) ==
    /\ pc = "pool"
    /\ caches' = [caches EXCEPT ![slot] = PoolFeedForwardCache(pool, input, prediction, mask)]
    /\ result' = [op |-> "pool_feed_forward", raised |-> "", prediction |-> prediction,
                  cache |-> PoolFeedForwardCache(pool, input, prediction, mask)]
    /\ UNCHANGED <<pc, args, curand_stream, self, pool, net>>

\* if self.dropout and dropout_mask is not None: apply_dropout_mask(...)
\* for a cache of three elements.
PoolMasked(layer, df_output, dropout_mask) ==
    IF layer.dropout /\ dropout_mask # NoMask
    THEN apply_dropout_mask(df_output, dropout_mask.val)
    ELSE df_output

PoolRouted(input, argmax, df_output) ==
    [raised |-> "", df_output |-> df_output,
     df_input |-> MaxPoolGradient(input, argmax, df_output)]

\* MaxPoolingLayer.backprop on the cache it unpacks.  A cache of two
\* elements binds no dropout_mask: with self.dropout the test of
\* `dropout_mask is not None` reads a local that was never assigned, and
\* Python raises UnboundLocalError; without self.dropout `and` does not
\* evaluate it.
PoolBackpropOn(layer, input, df_output, items) ==
    IF Len(items) \notin {2, 3}
    THEN [raised |-> "ValueError", df_output |-> df_output, df_input |-> <<>>]
    ELSE IF Len(items) = 2 /\ layer.dropout
    THEN [raised |-> "UnboundLocalError", df_output |-> df_output, df_input |-> <<>>]
    ELSE IF Len(items) = 2
    THEN PoolRouted(input, items[2], df_output)
    ELSE PoolRouted(input, items[2], PoolMasked(layer, df_output, items[3]))

PoolBackpropRecord(cache_given, cache, input, df_output_in, ret) ==
    [op |-> "pool_backprop", raised |-> ret.raised, cache_given |-> cache_given,
     cache |-> cache, input |-> input, df_output_in |-> df_output_in,
     df_output |-> ret.df_output, df_input |-> ret.df_input]

PoolBackpropWith(cache_given, cache, input, df_output) ==
    result' = PoolBackpropRecord(cache_given, cache, input, df_output,
                                 PoolBackpropOn(pool, input, df_output, cache.items))

\* backprop(input, df_output, cache): cache is None or a tuple; mask is what
\* sample_dropout_mask returns if feed_forward is run.
PoolBackprop(input, df_output, cache, mask) ==
    /\ pc = "pool"
    /\ PoolBackpropWith(cache,
                        CacheUsed(cache, PoolFeedForwardCache(pool, input, FALSE, mask)),
                        input, df_output)
    /\ UNCHANGED <<pc, args, curand_stream, self, pool, net, caches>>

(***************************************************************************)
(* SequenceConvolutionNet.__init__                                         *)
(***************************************************************************)
\* SequenceConvolutionLayer.__init__: self.n_units = n_filters * n_in
NewConv(n_in, filter_width, n_filters) ==
    [n_in |-> n_in, filter_width |-> filter_width, n_filters |-> n_filters,
     n_units |-> n_filters * n_in]

\* n_in_nn = n_filters * n_in / pool_size, on integers
NInNn(n_in, pool_size, n_filters) == FloorDiv(n_filters * n_in, pool_size)

NetObj(a, conv_layer) ==
    [raised |-> "",
     n_in_nn |-> NInNn(a.n_in, a.pool_size, a.n_filters),
     conv_layer |-> conv_layer,
     max_pool_layer |-> NewPool(FloorDiv(conv_layer.n_units, a.n_filters), a.pool_size,
                                a.n_filters, a.dropout),
     n_layers |-> Len(a.layers) + 2,
     n_in |-> a.n_in, filter_width |-> a.filter_width,
     n_filters |-> a.n_filters, pool_size |-> a.pool_size]

NetInit ==
    /\ pc = "netargs"
    /\ pc' = "net"
    /\ net' = NetObj(args, NewConv(args.n_in, args.filter_width, args.n_filters))
    /\ result' = [op |-> "net__init__", raised |-> ""]
    /\ UNCHANGED <<args, curand_stream, self, pool, caches>>

(***************************************************************************)
(* Argument sets.                                                          *)
(***************************************************************************)
Unbuilt == [raised |-> "unbuilt"]
NoResult == [op |-> "", raised |-> ""]

\* The lists of 1..MaxRegions regions drawn from R.
RegionListsUpTo(R, len) == UNION {[1..n -> R] : n \in 1..len}

RegionLists(R) == RegionListsUpTo(R, MaxRegions)

Tensor(shape, val) == [shape |-> shape, val |-> val]

\* A HiddenLayer of one input: its n_units, its dropout flag and its two
\* parameters W and b.
HiddenLayerObj(n_units, dropout) ==
    [type |-> "HiddenLayer", n_units |-> n_units, dropout |-> dropout,
     n_parameters |-> 2,
     parameters |-> <<Tensor(<<1, n_units>>, 1), Tensor(<<n_units>>, 0)>>]

InitWith(Lists, Kw, Fc, Dropout, Streams) ==
    /\ pc = "args"
    /\ args \in [subregion_layers : Lists, kwargs : Kw,
                 fully_connected_layer : Fc, dropout : Dropout]
    /\ curand_stream \in Streams
    /\ self = Unbuilt
    /\ pool = Unbuilt
    /\ net = Unbuilt
    /\ caches = [k \in 1..MaxCaches |-> NoneType]
    /\ result = NoResult

(***************************************************************************)
(* SpecShare: construction of layers whose regions share filter banks.     *)
(***************************************************************************)
\* The activation function a region that declares f filters declares.
DeclaredActivation(f) == IF f % 2 = 1 THEN "sigmoid" ELSE "tanh"

\* Regions that declare nothing of their own or n_filters, filter_width and
\* an activation function, without weight_share or with one that names any
\* index of the list, the last one also as -1.
ShareRegions ==
    {[n_in |-> MaxNIn, pool_size |-> MaxPoolSize] @@ s @@ w :
        s \in {EmptyDict} \cup
              {[n_filters |-> f, filter_width |-> f,
                activation_function |-> DeclaredActivation(f)] : f \in 1..MaxFilters},
        w \in OptSet("weight_share", (0 - 1)..(MaxRegions - 1))}

ShareKw == {EmptyDict, [n_filters |-> 1, activation_function |-> "relu"]}

ShareFc == {NoneType, HiddenLayerObj(2, FALSE), HiddenLayerObj(1, TRUE),
            [type |-> "str"]}

InitShare ==
    InitWith(RegionLists(ShareRegions), ShareKw, ShareFc, {FALSE},
             {[i \in 1..MaxRegions |-> 1]})

NextShare == Construct

SpecShare == InitShare /\ [][NextShare]_vars

(***************************************************************************)
(* SpecParams: the parameter list of a constructed layer, read, assigned   *)
(* and updated.                                                            *)
(***************************************************************************)
\* A region of one position, one filter and one pooled column.
UnitRegion ==
    [n_in |-> 1, pool_size |-> 1, n_filters |-> 1, filter_width |-> 1,
     activation_function |-> "sigmoid"]

ParamRegions ==
    {UnitRegion @@ w : w \in OptSet("weight_share", 0..(MaxRegions - 1))}

\* A list of len tensors that differ from each other.
TaggedList(len, base) == [i \in 1..len |-> Tensor(<<1>>, base + i)]

\* A list of len (gradient, multiplier) pairs.
UpdateList(len, g, mult) == [i \in 1..len |-> <<g, mult>>]

\* The right length of a parameter list, one less and one more.
NearLengths ==
    IF pc = "built" THEN (n_parameters(self) - 1)..(n_parameters(self) + 1) ELSE {}

InitParams ==
    InitWith(RegionLists(ParamRegions), {EmptyDict},
             {NoneType, HiddenLayerObj(1, FALSE)}, {FALSE},
             {[i \in 1..MaxRegions |-> 1]})

NextParams ==
    \/ Construct
    \/ \E len \in NearLengths, base \in {0, 3} :
          SetParameters(TaggedList(len, base))
    \/ \E len \in NearLengths, g \in {0 - 1, 1}, mult \in {1, 2} :
          UpdateParameters(UpdateList(len, g, mult))

SpecParams == InitParams /\ [][NextParams]_vars

(***************************************************************************)
(* SpecGrad: forward and backward passes of layers without dropout whose   *)
(* regions declare penalty weights.                                        *)
(***************************************************************************)
GradRegions ==
    {UnitRegion @@ w @@ l1 :
        w \in OptSet("weight_share", 0..(MaxRegions - 1)),
        l1 \in OptSet("l1_penalty_weight", {1})}

\* No layer-wide penalty weight, or an L2 weight for every region.
GradKw == {EmptyDict, [l2_penalty_weight |-> 1]}

\* curand fills every filter bank with a positive value, or every one with
\* a negative value.
GradStreams == {[i \in 1..MaxRegions |-> v] : v \in {0 - 1, 1}}

InitGrad ==
    InitWith(RegionLists(GradRegions), GradKw,
             {NoneType, HiddenLayerObj(1, FALSE)}, {FALSE}, GradStreams)

NextGrad ==
    \/ Construct
    \/ \E slot \in 1..MaxCaches, prediction \in BOOLEAN :
          \E mask \in ForwardMasks(prediction) : FeedForward(slot, prediction, mask)
    \/ \E cache \in HeldCaches, df_output \in DfOutputs(WidthNow) :
          \E mask \in BackpropMasks(cache) : Backprop(cache, df_output, mask)

SpecGrad == InitGrad /\ [][NextGrad]_vars

(***************************************************************************)
(* SpecDropout: forward and backward passes, interleaved, of layers with   *)
(* and without dropout.                                                    *)
(***************************************************************************)
DropoutRegions == {UnitRegion @@ w : w \in OptSet("weight_share", {0})}

\* The longest list of regions of a layer with dropout.
MaxDropoutRegions == 1

InitDropout ==
    InitWith(RegionListsUpTo(DropoutRegions, MaxDropoutRegions), {EmptyDict},
             {NoneType, HiddenLayerObj(1, FALSE)}, BOOLEAN,
             {[i \in 1..MaxRegions |-> 1]})

NextDropout ==
    \/ Construct
    \/ \E slot \in 1..MaxCaches, prediction \in BOOLEAN :
          \E mask \in ForwardMasks(prediction) : FeedForward(slot, prediction, mask)
    \/ \E cache \in HeldCaches, df_output \in DfOutputs(WidthNow) :
          \E mask \in BackpropMasks(cache) : Backprop(cache, df_output, mask)

SpecDropout == InitDropout /\ [][NextDropout]_vars

(***************************************************************************)
(* SpecPool: forward and backward passes of a MaxPoolingLayer, the         *)
(* backward ones on caches of every length.                                *)
(***************************************************************************)
\* Rows of a filtermap: the maximum first in its window, last, or everywhere.
PoolInputs(n) ==
    {[q \in 1..n |-> 2 * (q % 2)], [q \in 1..n |-> 2 * ((q + 1) % 2)], [q \in 1..n |-> 2]}

\* The caches a caller can make of the one it holds: its first k elements,
\* or one element more.
CacheVariants(c) ==
    IF c = NoneType THEN {}
    ELSE {TupleOf(SubSeq(c.items, 1, k)) : k \in 0..Len(c.items)}
         \cup {TupleOf(Append(c.items, m)) :
                  m \in {NoMask} \cup
                        {[type |-> "mask", val |-> v] : v \in DropoutMasks(pool.n_units)}}

PoolMasks(called) == IF called /\ pool.dropout THEN DropoutMasks(pool.n_units) ELSE {<<>>}

InitPool ==
    /\ pc = "pool"
    /\ args = NoneType
    /\ curand_stream = <<>>
    /\ self = Unbuilt
    /\ pool \in {NewPool(n_in, pool_size, n_filters, dropout) :
                    n_in \in 1..MaxNIn, pool_size \in 1..MaxPoolSize,
                    n_filters \in {1}, dropout \in BOOLEAN}
    /\ net = Unbuilt
    /\ caches = [k \in 1..MaxCaches |-> NoneType]
    /\ result = NoResult

NextPool ==
    \/ \E input \in PoolInputs(pool.n_in * pool.n_filters), prediction \in BOOLEAN :
          \E mask \in PoolMasks(~ prediction) : PoolFeedForward(1, input, prediction, mask)
    \/ \E input \in PoolInputs(pool.n_in * pool.n_filters),
          df_output \in DfOutputs(pool.n_units),
          cache \in {NoneType} \cup CacheVariants(caches[1]) :
          \E mask \in PoolMasks(cache = NoneType) :
              PoolBackprop(input, df_output, cache, mask)

SpecPool == InitPool /\ [][NextPool]_vars

(***************************************************************************)
(* SpecNet: construction of a SequenceConvolutionNet without dense layers. *)
(***************************************************************************)
InitNet ==
    /\ pc = "netargs"
    /\ args \in [n_in : 1..MaxNetNIn, pool_size : 1..MaxNetPoolSize,
                 n_filters : 1..MaxFilters, filter_width : {1}, dropout : BOOLEAN,
                 layers : {<<>>}]
    /\ curand_stream = <<>>
    /\ self = Unbuilt
    /\ pool = Unbuilt
    /\ net = Unbuilt
    /\ caches = [k \in 1..MaxCaches |-> NoneType]
    /\ result = NoResult

NextNet == NetInit

SpecNet == InitNet /\ [][NextNet]_vars

(***************************************************************************)
(* Properties of the constructed layer.                                    *)
(***************************************************************************)
HasFc == self.fully_connected_layer.type = "HiddenLayer"

\* The columns of the pooled buffer a region owns, and those of the
\* fully-connected branch.
Cols(l) == l["output_offset"] .. (l["output_offset"] + l["n_units"] - 1)

FcCols ==
    IF HasFc
    THEN self.fc_layer_offset ..
         (self.fc_layer_offset + self.fully_connected_layer.n_units - 1)
    ELSE {}

\* C1: after a successful construction the column ranges of the regions, in
\* declaration order, followed by the range of the fully-connected branch
\* when there is one, are pairwise disjoint and cover [0, n_units) without
\* a gap, and the regions' n_units plus the branch's add up to n_units.
C1_OffsetsTile ==
    pc = "built" =>
        LET L == self.subregion_layers
            n == Len(L)
        IN  /\ L[1]["output_offset"] = 0
            /\ \A i \in 1..(n - 1) :
                  L[i + 1]["output_offset"] = L[i]["output_offset"] + L[i]["n_units"]
            /\ HasFc => self.fc_layer_offset = L[n]["output_offset"] + L[n]["n_units"]
            /\ \A i, j \in 1..n : i # j => Cols(L[i]) \cap Cols(L[j]) = {}
            /\ \A i \in 1..n : Cols(L[i]) \cap FcCols = {}
            /\ UNION {Cols(L[i]) : i \in 1..n} \cup FcCols = 0..(self.n_units - 1)
            /\ SumSeq([i \in 1..n |-> L[i]["n_units"]])
                 + (IF HasFc THEN self.fully_connected_layer.n_units ELSE 0)
               = self.n_units

\* Three regions of two different widths, one of them a slave, and a
\* fully-connected branch.
C1_Witness ==
    /\ pc = "built"
    /\ HasFc
    /\ Len(self.subregion_layers) = 3
    /\ \E i, j \in 1..3 :
          /\ self.subregion_layers[i]["n_units"] # self.subregion_layers[j]["n_units"]
          /\ self.subregion_layers[i]["layer_type"] = "slave"

\* The number of masters among the first j regions.
MastersUpTo(L, j) == Cardinality({k \in 1..j : L[k]["layer_type"] = "master"})

\* C9: after a successful construction every slave's param_idx is the index
\* of the filter bank a master declared earlier allocated, the slave's
\* n_filters, filter_width and activation function (name, f, df) are that
\* master's, whatever the slave declared, and no weight_share names the
\* region itself or a later one.
C9_SlavesFollowMasters ==
    pc = "built" =>
        LET L == self.subregion_layers
            n == Len(L)
        IN  \A i \in 1..n : L[i]["layer_type"] = "slave" =>
              /\ PyIndex(args.subregion_layers[i]["weight_share"], n) + 1 < i
              /\ \E j \in 1..(i - 1) :
                    /\ L[j]["layer_type"] = "master"
                    /\ L[j]["param_idx"] = L[i]["param_idx"]
                    /\ MastersUpTo(L, j) = L[j]["param_idx"] + 1
                    /\ self.W[L[j]["param_idx"] + 1].shape
                         = <<L[i]["n_filters"], AlphabetSize * L[i]["filter_width"]>>
                    /\ \A k \in {"n_filters", "filter_width", "activation_function",
                                 "f", "df"} : L[i][k] = L[j][k]

\* A slave of a slave, which declared another n_filters than its master's.
C9_Witness ==
    /\ pc = "built"
    /\ Len(self.subregion_layers) = 3
    /\ self.subregion_layers[2]["layer_type"] = "slave"
    /\ self.subregion_layers[3]["layer_type"] = "slave"
    /\ args.subregion_layers[3]["weight_share"] = 1
    /\ "n_filters" \in DOMAIN args.subregion_layers[3]
    /\ args.subregion_layers[3]["n_filters"] # self.subregion_layers[3]["n_filters"]

\* C4: a master region that declares a value for a field keeps it in its
\* resolved descriptor, also when a layer-wide value for the field is given.
C4_DeclaredValueKept ==
    pc = "built" =>
        \A i \in 1..Len(self.subregion_layers) :
            self.subregion_layers[i]["layer_type"] = "master" =>
                \A k \in DefaultFields \cap DOMAIN args.subregion_layers[i] :
                    self.subregion_layers[i][k] = args.subregion_layers[i][k]

(***************************************************************************)
(* Properties of the parameter list.                                       *)
(***************************************************************************)
NMasters(layer) ==
    Cardinality({i \in 1..Len(layer.subregion_layers) :
                    layer.subregion_layers[i]["layer_type"] = "master"})

ParameterCounts ==
    pc = "built" =>
        /\ Len(self.W) = NMasters(self)
        /\ Len(self.b) = NMasters(self)
        /\ n_parameters(self) = 2 * NMasters(self) + FcNParameters(self)
        /\ Len(parameters(self)) = n_parameters(self)

\* A call with a list of another length than n_parameters fails and
\* leaves the parameters as they were.
WrongLengthRejected ==
    (/\ result'.op \in {"parameters", "update_parameters"}
     /\ Len(result'.value) # n_parameters(self))
    => (result'.raised = "AssertionError" /\ parameters(self') = parameters(self))

ParameterCountsNext == ParameterCounts'

\* C7: after construction and after every parameters assignment and
\* update_parameters call there are as many weight tensors and as many bias
\* vectors as master regions and n_parameters is twice that plus the
\* fully-connected branch's count; an assignment or update whose list has
\* another length fails and leaves W, b and the branch's parameters as they
\* were.
C7_ParameterList == [][ParameterCountsNext /\ WrongLengthRejected]_vars

\* An assignment accepted by a layer with a slave and a fully-connected
\* branch, after which each of W, b and the branch holds its part of the list.
C7_Witness ==
    /\ pc = "built"
    /\ result.op = "parameters"
    /\ result.raised = ""
    /\ NMasters(self) = 2
    /\ Len(self.subregion_layers) = 3
    /\ FcNParameters(self) = 2
    /\ parameters(self) = result.value

(***************************************************************************)
(* Properties of backprop's parameter gradients.                           *)
(***************************************************************************)
\* The gradients region r computes on its own in the last backprop call.
StandaloneW(r) ==
    DfWLayer(self.subregion_layers[r], InputOf(self)[r],
             result.cache.filtermaps[r], result.df_output)

StandaloneB(r) ==
    DfBLayer(self.subregion_layers[r], result.cache.filtermaps[r], result.df_output)

\* The sum of the standalone gradients of the regions whose param_idx is p.
SumOfSharersW(p) ==
    SumSeq([r \in 1..Len(self.subregion_layers) |->
               IF self.subregion_layers[r]["param_idx"] = p THEN StandaloneW(r) ELSE 0])

SumOfSharersB(p) ==
    SumSeq([r \in 1..Len(self.subregion_layers) |->
               IF self.subregion_layers[r]["param_idx"] = p THEN StandaloneB(r) ELSE 0])

NoPenalties ==
    \A j \in 1..Len(self.master_layers) :
        /\ self.master_layers[j]["l1_penalty_weight"] = 0
        /\ self.master_layers[j]["l2_penalty_weight"] = 0

\* C2: with all penalty weights zero, the weight gradient backprop returns
\* at position p and the bias gradient at position (number of masters + p)
\* are each the sum of the standalone gradients of exactly the regions
\* whose param_idx is p.
C2_SharedGradientsSum ==
    (pc = "built" /\ result.op = "backprop" /\ NoPenalties) =>
        /\ result.raised = ""
        /\ Len(result.grads) = n_parameters(self)
        /\ \A p \in 0..(NMasters(self) - 1) :
              /\ result.grads[p + 1] = SumOfSharersW(p)
              /\ result.grads[NMasters(self) + p + 1] = SumOfSharersB(p)

\* Two filter banks, the second shared by a slave; every region's gradient
\* is non-zero, so the second bank's gradient holds two contributions and
\* the first bank's one.
C2_Witness ==
    /\ pc = "built"
    /\ result.op = "backprop"
    /\ NoPenalties
    /\ Len(self.subregion_layers) = 3
    /\ NMasters(self) = 2
    /\ self.subregion_layers[3]["param_idx"] = 1
    /\ \A r \in 1..3 : StandaloneW(r) # 0
    /\ result.grads[2] = StandaloneW(2) + StandaloneW(3)

\* C3: the weight gradient backprop returns for parameter p is the
\* accumulated gradient of p minus l1_p * sign(W_p) minus l2_p * W_p, with
\* the penalty weights of p's master, subtracted once however many slaves
\* share p; the bias gradients get no penalty.
C3_PenaltyOncePerParameter ==
    (pc = "built" /\ result.op = "backprop") =>
        /\ result.raised = ""
        /\ \A p \in 0..(NMasters(self) - 1) :
              /\ result.grads[p + 1] =
                    SumOfSharersW(p)
                    - self.master_layers[p + 1]["l1_penalty_weight"] * Sign(self.W[p + 1].val)
                    - self.master_layers[p + 1]["l2_penalty_weight"] * self.W[p + 1].val
              /\ result.grads[NMasters(self) + p + 1] = SumOfSharersB(p)

(***************************************************************************)
(* Properties of the dropout mask.                                         *)
(***************************************************************************)
\* C5: with dropout, without prediction and with a fully-connected branch,
\* the columns from fc_layer_offset on of the buffer feed_forward returns
\* are the branch's activations, and the columns from fc_layer_offset on of
\* grad_output reach the branch's backprop as they were passed in.
C5_MaskSparesFcColumns ==
    (pc = "built" /\ self.dropout /\ HasFc) =>
        /\ (result.op = "feed_forward" /\ ~ result.prediction) =>
              extract_columns(result.cache.activations_pooled,
                              self.fc_layer_offset, self.n_units)
                = result.cache.activations_fc
        /\ (result.op = "backprop" /\ result.cache.dropout_mask # NoMask) =>
              result.df_output_fc
                = extract_columns(result.df_output_in, self.fc_layer_offset, self.n_units)

\* The last backprop call multiplied grad_output by the mask of the cache
\* it was given, or, given none, by the mask of the forward pass it ran.
MaskOfOwnCache ==
    (pc = "built" /\ result.op = "backprop" /\ self.dropout) =>
        /\ (result.cache_given # NoneType /\ result.cache_given.dropout_mask # NoMask) =>
              result.df_output
                = Mul(result.df_output_in, result.cache_given.dropout_mask.val)
        /\ (result.cache_given # NoneType /\ result.cache_given.dropout_mask = NoMask) =>
              result.df_output = result.df_output_in
        /\ result.cache_given = NoneType =>
              /\ result.cache.dropout_mask # NoMask
              /\ result.df_output = Mul(result.df_output_in, result.cache.dropout_mask.val)

MaskOfOwnCacheNext == MaskOfOwnCache'

\* A forward or backward pass leaves the layer object as it was.
LayerKeepsNothing ==
    result'.op \in {"feed_forward", "backprop"} => self' = self

\* C8: however feed_forward and backprop calls interleave, a backprop call
\* given a cache multiplies grad_output by the mask in that cache, one
\* given no cache by the mask of the forward pass it runs, and the layer
\* object keeps nothing between calls.
C8_MaskIsCacheScoped == [][MaskOfOwnCacheNext /\ LayerKeepsNothing]_vars

\* A backprop call on the older of two held caches with different masks,
\* made right after another forward pass.
C8_Witness ==
    /\ pc = "built"
    /\ self.dropout
    /\ result.op = "backprop"
    /\ result.cache_given # NoneType
    /\ result.cache_given = caches[1]
    /\ caches[2] # NoneType
    /\ caches[2].dropout_mask # NoMask
    /\ caches[1].dropout_mask # NoMask
    /\ caches[2].dropout_mask # caches[1].dropout_mask
    /\ result.df_output # result.df_output_in

(***************************************************************************)
(* Properties of MaxPoolingLayer.backprop.                                 *)
(***************************************************************************)
\* C6: for either dropout setting, backprop on a cache of 2 elements
\* returns the routed gradient of the unmasked grad_output, on a cache of 3
\* elements that of grad_output times the mask, and on a cache of any other
\* length raises ValueError with grad_output untouched.
C6_CacheArity ==
    (pc = "pool" /\ result.op = "pool_backprop") =>
        /\ Len(result.cache.items) = 2 =>
              /\ result.raised = ""
              /\ result.df_output = result.df_output_in
              /\ result.df_input =
                    MaxPoolGradient(result.input, result.cache.items[2],
                                    result.df_output_in)
        /\ (Len(result.cache.items) = 3 /\ result.cache.items[3] # NoMask) =>
              /\ result.raised = ""
              /\ result.df_output = Mul(result.df_output_in, result.cache.items[3].val)
              /\ result.df_input =
                    MaxPoolGradient(result.input, result.cache.items[2],
                                    result.df_output)
        /\ Len(result.cache.items) \notin {2, 3} =>
              /\ result.raised = "ValueError"
              /\ result.df_output = result.df_output_in

(***************************************************************************)
(* Properties of SequenceConvolutionNet.                                   *)
(***************************************************************************)
\* C10: n_in_nn is the n_units of the MaxPoolingLayer the net wires in,
\* ceil(n_in / pool_size) * n_filters.
C10_DenseInputWidth ==
    pc = "net" =>
        /\ net.n_in_nn = net.max_pool_layer.n_units
        /\ net.n_in_nn = CeilDiv(args.n_in, args.pool_size) * args.n_filters

====
